---- MODULE Spec2Model ----
(***************************************************************************)
(* Model of the artifact signer (python/signer.py) and verifier            *)
(* (python/verifier.py).  One host process runs signer and verifier        *)
(* invocations one after the other.  The cryptography library is modelled  *)
(* symbolically: a signature is the record of the scheme, the parameters,  *)
(* the signing key and the message it was made for, plus the set of bit    *)
(* positions that were flipped afterwards.                                 *)
(***************************************************************************)
EXTENDS Integers, FiniteSets, Sequences, TLC

\* ------------------------------------------------------------------ bounds
NumKeys == 2        \* key pairs per key family
SigBits == 1        \* bit positions of a signature that may be flipped

\* ------------------------------------------------------------- value space
Supported   == {"Ed25519", "RSA", "EC"}
Unsupported == {"DSA", "Ed448", "X25519"}
Families    == Supported \cup Unsupported

\* artifact byte contents: the empty artifact and a non-empty one
Artifacts == {"", "hello world"}

Bytes(b) == [data |-> b, rounds |-> 0]

NoFile     == [kind |-> "missing"]
Unreadable == [kind |-> "unreadable"]
Garbage    == [kind |-> "garbage"]
NotRead    == [kind |-> "unread"]     \* a path the program has not opened yet

ArtifactFiles == {NoFile, Unreadable} \cup {[kind |-> "file", bytes |-> Bytes(b)] : b \in Artifacts}

KeyObject(r, f, i) == [role |-> r, family |-> f, id |-> i]
KeyObjects == {KeyObject(r, f, i) : r \in {"private", "public"}, f \in Families, i \in 1..NumKeys}
NoKey == [role |-> "none", family |-> "none", id |-> 0]

KeyFiles == {NoFile, Garbage} \cup {[kind |-> "pem", key |-> k] : k \in KeyObjects}

\* the parameters a library sign/verify call is made with
NoAlgo   == [scheme |-> "none", mgf |-> "-", salt |-> "-", hash |-> "-", prehashed |-> FALSE, nargs |-> 0]
Ed25519Algo == [scheme |-> "Ed25519", mgf |-> "-", salt |-> "-", hash |-> "-", prehashed |-> FALSE, nargs |-> 2]
PSSAlgo  == [scheme |-> "RSA-PSS", mgf |-> "MGF1-SHA256", salt |-> "MAX_LENGTH", hash |-> "SHA256", prehashed |-> TRUE, nargs |-> 4]
ECDSAAlgo == [scheme |-> "ECDSA", mgf |-> "-", salt |-> "-", hash |-> "SHA256", prehashed |-> TRUE, nargs |-> 3]

NoBytes    == [data |-> "", rounds |-> -1]
EmptySig   == [algo |-> NoAlgo, family |-> "none", id |-> 0, msg |-> NoBytes, flipped |-> {}]
NoSig      == [algo |-> NoAlgo, family |-> "unset", id |-> 0, msg |-> NoBytes, flipped |-> {}]

Ret(v)   == [kind |-> "return", value |-> v, exc |-> "-"]
Raise(e) == [kind |-> "raise", value |-> -1, exc |-> e]
NotCalled == [kind |-> "none", value |-> -1, exc |-> "-"]
NoCall   == [fn |-> "none", algo |-> NoAlgo]

VARIABLES
    fs_out,      \* the file at the signer's output path (args.out)
    prog,        \* which program runs or ran last: "none", "signer", "verifier"
    pc,          \* position in the running program, "done" between invocations
    artifact,    \* the file found at artifact_path
    keyfile,     \* the file found at key_path / pubkey_path
    sigfile,     \* the file found at sig_path (verifier)
    digest,      \* local: digest
    key,         \* local: key
    sig,         \* local: sig
    call,        \* the library sign/verify call the dispatch made
    result,      \* how sign_with_private_key / verify_signature ended
    status,      \* exit status of the process (main), -1 while running
    handles,     \* file handles open in the host process
    signed       \* what the last successful signer run signed, and with which key

vars == <<fs_out, prog, pc, artifact, keyfile, sigfile, digest, key, sig, call,
          result, status, handles, signed>>

\* ------------------------------------------------- library: hashlib, crypto
\* hashlib.sha256: injective on the modelled byte strings, 32 bytes out
sha256(b) == [data |-> b.data, rounds |-> b.rounds + 1]

\* the message a scheme binds: Prehashed data is taken as the hash itself,
\* otherwise the scheme hashes its input (Ed25519 takes the message as it is)
MessageOf(data, algo) ==
    IF algo.hash = "-" \/ algo.prehashed THEN data ELSE sha256(data)

\* does key.sign / key.verify of this family take a call of this shape?
\* (Ed25519, Ed448: (sig, data); RSA: (sig, data, padding, algorithm);
\*  EC: (sig, data, ECDSA); DSA: (sig, data, hash algorithm))
Accepts(family, algo) ==
    CASE family \in {"Ed25519", "Ed448"} -> algo.nargs = 2
      [] family = "RSA" -> algo.nargs = 4
      [] family = "EC"  -> algo.nargs = 3 /\ algo.scheme = "ECDSA"
      [] family = "DSA" -> algo.nargs = 3 /\ algo.scheme = "DSA"
      [] OTHER -> FALSE

\* key.sign(...): the signature bytes
Sign(k, data, algo) ==
    [algo |-> algo, family |-> k.family, id |-> k.id, msg |-> MessageOf(data, algo), flipped |-> {}]

\* the scheme's cryptographic check of signature s over data under public key k
Valid(k, s, data, algo) ==
    /\ s.algo = algo
    /\ s.family = k.family
    /\ s.id = k.id
    /\ s.msg = MessageOf(data, algo)
    /\ s.flipped = {}

\* key.verify(...): "ok" (returns None) or the exception raised
Verify(k, s, data, algo) ==
    IF ~Accepts(k.family, algo) THEN "TypeError"
    ELSE IF Valid(k, s, data, algo) THEN "ok"
    ELSE "InvalidSignature"

\* attributes the verifier probes on a loaded public key object
HasVerify(family)  == family \in {"Ed25519", "RSA", "EC", "DSA", "Ed448"}
HasKeySize(family) == family \in {"RSA", "EC", "DSA"}

\* serialization.load_pem_private_key / load_pem_public_key on a key file's data
load_pem(file, role) ==
    IF file.kind = "pem" /\ file.key.role = role
    THEN [exc |-> "-", key |-> file.key]
    ELSE [exc |-> "ValueError", key |-> NoKey]

\* --------------------------------------------------- the programs' functions
IsException(e) == e \in {"InvalidSignature", "TypeError", "ValueError", "FileNotFoundError", "PermissionError"}

\* with open(path,'rb') as f: the handle is open inside the block only
WithOpen(hs, h) == (hs \cup {h}) \ {h}

sha256_of_file(file) ==
    CASE file.kind = "file" -> [exc |-> "-", value |-> sha256(file.bytes)]
      [] file.kind = "missing" -> [exc |-> "FileNotFoundError", value |-> NoBytes]
      [] OTHER -> [exc |-> "PermissionError", value |-> NoBytes]

\* variant: the loader takes a PEM of either role
load_private_key_anyrole(file) ==
    IF file.kind = "missing" THEN [exc |-> "FileNotFoundError", key |-> NoKey]
    ELSE IF file.kind = "pem" THEN [exc |-> "-", key |-> file.key]
    ELSE [exc |-> "ValueError", key |-> NoKey]

load_private_key(file) ==
    IF file.kind = "missing" THEN [exc |-> "FileNotFoundError", key |-> NoKey]
    ELSE load_pem(file, "private")

load_public_key(file) ==
    IF file.kind = "missing" THEN [exc |-> "FileNotFoundError", key |-> NoKey]
    ELSE load_pem(file, "public")

\* signer.py 29-40: the isinstance chain and the sign call
sign_dispatch(k, d) ==
    IF k.role = "private" /\ k.family = "Ed25519"
    THEN [exc |-> "-", sig |-> Sign(k, d, Ed25519Algo), call |-> [fn |-> "sign", algo |-> Ed25519Algo]]
    ELSE IF k.role = "private" /\ k.family = "RSA"
    THEN [exc |-> "-", sig |-> Sign(k, d, PSSAlgo), call |-> [fn |-> "sign", algo |-> PSSAlgo]]
    ELSE IF k.role = "private" /\ k.family = "EC"
    THEN [exc |-> "-", sig |-> Sign(k, d, ECDSAAlgo), call |-> [fn |-> "sign", algo |-> ECDSAAlgo]]
    ELSE [exc |-> "SystemExit('Unsupported key type')", sig |-> NoSig, call |-> NoCall]

\* verifier.py 29-44: the branch taken for a key object
verify_branch(k) ==
    IF ~HasVerify(k.family) THEN NoAlgo
    ELSE IF k.role = "public" /\ k.family = "Ed25519" THEN Ed25519Algo
    ELSE IF HasKeySize(k.family) THEN PSSAlgo
    ELSE ECDSAAlgo

\* variant: no except clause, the library's exception leaves the function
verify_dispatch_nocatch(k, s, d) ==
    LET algo == verify_branch(k)
        out  == Verify(k, s, d, algo)
    IN  IF algo = NoAlgo
        THEN [result |-> Raise("SystemExit('Verification failed')"), call |-> NoCall]
        ELSE [result |-> IF out = "ok" THEN Ret(0) ELSE Raise(out),
              call |-> [fn |-> "verify", algo |-> algo]]

\* variant: the except clause only prints, and return 0 follows the try block
verify_dispatch_fallthrough(k, s, d) ==
    LET algo == verify_branch(k)
    IN  IF algo = NoAlgo
        THEN [result |-> Raise("SystemExit('Verification failed')"), call |-> NoCall]
        ELSE [result |-> Ret(0), call |-> [fn |-> "verify", algo |-> algo]]

\* verifier.py 28-48: try / dispatch / except Exception
verify_dispatch(k, s, d) ==
    LET algo == verify_branch(k)
        out  == Verify(k, s, d, algo)
    IN  IF algo = NoAlgo
        THEN [result |-> Raise("SystemExit('Verification failed')"), call |-> NoCall]
        ELSE [result |-> IF out = "ok" THEN Ret(0)
                         ELSE IF IsException(out) THEN Ret(2) ELSE Raise(out),
              call |-> [fn |-> "verify", algo |-> algo]]


\* ------------------------------------------------------------ input spaces
\* signature files: missing, empty, the signatures a signer can have produced
\* for the modelled keys and artifacts, and those with bits flipped
GoodSigs == {sign_dispatch(KeyObject("private", f, i), sha256(Bytes(b))).sig :
                f \in Supported, i \in 1..NumKeys, b \in Artifacts}
SigBytes == {EmptySig} \cup {[s EXCEPT !.flipped = fl] : s \in GoodSigs, fl \in SUBSET (1..SigBits)}
SigFiles == {NoFile} \cup {[kind |-> "file", bytes |-> s] : s \in SigBytes}

NotSigned == [artifact |-> NoBytes, key |-> NoKey, sig |-> NoSig]
RetNone   == [kind |-> "return", value |-> -1, exc |-> "None"]

\* ------------------------------------------------------------------- state
Init ==
    /\ fs_out = NoFile
    /\ prog = "none"
    /\ pc = "done"
    /\ artifact = NotRead
    /\ keyfile = NotRead
    /\ sigfile = NotRead
    /\ digest = NoBytes
    /\ key = NoKey
    /\ sig = NoSig
    /\ call = NoCall
    /\ result = NotCalled
    /\ status = -1
    /\ handles = {}
    /\ signed = NotSigned

\* an exception leaves the function and, uncaught in main, ends the process
\* with a traceback (or SystemExit's message) and exit status 1
Propagate(e) ==
    /\ result' = Raise(e)
    /\ status' = 1
    /\ pc' = "done"

\* ------------------------------------------------------------------ signer
\* signer.py 45-54: main up to the call of sign_with_private_key
signer_main(a) ==
    /\ pc = "done"
    /\ prog' = "signer"
    /\ artifact' = a
    /\ keyfile' = NotRead
    /\ sigfile' = NotRead
    /\ digest' = NoBytes
    /\ key' = NoKey
    /\ sig' = NoSig
    /\ call' = NoCall
    /\ result' = NotCalled
    /\ IF a.kind = "missing"
       THEN status' = 1 /\ pc' = "done"
       ELSE status' = -1 /\ pc' = "digest"
    /\ UNCHANGED <<fs_out, handles, signed>>

\* signer.py 27
sign_digest ==
    /\ prog = "signer" /\ pc = "digest"
    /\ LET r == sha256_of_file(artifact)
       IN  IF r.exc # "-"
           THEN Propagate(r.exc) /\ UNCHANGED digest
           ELSE digest' = r.value /\ pc' = "load" /\ UNCHANGED <<result, status>>
    /\ handles' = WithOpen(handles, "artifact")
    /\ UNCHANGED <<fs_out, prog, artifact, keyfile, sigfile, key, sig, call, signed>>

\* signer.py 28
sign_load(k) ==
    /\ prog = "signer" /\ pc = "load"
    /\ keyfile' = k
    /\ LET r == load_private_key(k)
       IN  IF r.exc # "-"
           THEN Propagate(r.exc) /\ UNCHANGED key
           ELSE key' = r.key /\ pc' = "dispatch" /\ UNCHANGED <<result, status>>
    /\ handles' = WithOpen(handles, "key")
    /\ UNCHANGED <<fs_out, prog, artifact, sigfile, digest, sig, call, signed>>

\* variant: the output file is opened for writing before the signature is made
sign_call_open_first ==
    /\ prog = "signer" /\ pc = "dispatch"
    /\ fs_out' = [kind |-> "file", bytes |-> EmptySig]
    /\ LET r == sign_dispatch(key, digest)
       IN  /\ call' = r.call
           /\ IF r.exc # "-"
              THEN Propagate(r.exc) /\ UNCHANGED sig
              ELSE sig' = r.sig /\ pc' = "write" /\ UNCHANGED <<result, status>>
    /\ UNCHANGED <<prog, artifact, keyfile, sigfile, digest, key, handles, signed>>

\* signer.py 29-40
sign_call ==
    /\ prog = "signer" /\ pc = "dispatch"
    /\ LET r == sign_dispatch(key, digest)
       IN  /\ call' = r.call
           /\ IF r.exc # "-"
              THEN Propagate(r.exc) /\ UNCHANGED sig
              ELSE sig' = r.sig /\ pc' = "write" /\ UNCHANGED <<result, status>>
    /\ UNCHANGED <<fs_out, prog, artifact, keyfile, sigfile, digest, key, handles, signed>>

\* signer.py 41-43 and the return to main
sign_write ==
    /\ prog = "signer" /\ pc = "write"
    /\ fs_out' = [kind |-> "file", bytes |-> sig]
    /\ handles' = WithOpen(handles, "out")
    /\ signed' = [artifact |-> artifact.bytes, key |-> key, sig |-> sig]
    /\ result' = RetNone
    /\ status' = 0
    /\ pc' = "done"
    /\ UNCHANGED <<prog, artifact, keyfile, sigfile, digest, key, sig, call>>

\* ---------------------------------------------------------------- verifier
\* verifier.py 50-56: main up to the call of verify_signature
verifier_main ==
    /\ pc = "done"
    /\ prog' = "verifier"
    /\ artifact' = NotRead
    /\ sigfile' = NotRead
    /\ keyfile' = NotRead
    /\ digest' = NoBytes
    /\ key' = NoKey
    /\ sig' = NoSig
    /\ call' = NoCall
    /\ result' = NotCalled
    /\ status' = -1
    /\ pc' = "digest"
    /\ UNCHANGED <<fs_out, handles, signed>>

\* verifier.py 25
verify_digest(a) ==
    /\ prog = "verifier" /\ pc = "digest"
    /\ artifact' = a
    /\ LET r == sha256_of_file(a)
       IN  IF r.exc # "-"
           THEN Propagate(r.exc) /\ UNCHANGED digest
           ELSE digest' = r.value /\ pc' = "load" /\ UNCHANGED <<result, status>>
    /\ handles' = WithOpen(handles, "artifact")
    /\ UNCHANGED <<fs_out, prog, keyfile, sigfile, key, sig, call, signed>>

\* verifier.py 26
verify_load(p) ==
    /\ prog = "verifier" /\ pc = "load"
    /\ keyfile' = p
    /\ LET r == load_public_key(p)
       IN  IF r.exc # "-"
           THEN Propagate(r.exc) /\ UNCHANGED key
           ELSE key' = r.key /\ pc' = "readsig" /\ UNCHANGED <<result, status>>
    /\ handles' = WithOpen(handles, "key")
    /\ UNCHANGED <<fs_out, prog, artifact, sigfile, digest, sig, call, signed>>

\* verifier.py 27: open(sig_path,'rb').read() -- the file object is never
\* closed by the program; whether it is closed when the expression ends (a
\* reference-counting interpreter) or later is up to the interpreter
verify_readsig(s) ==
    /\ prog = "verifier" /\ pc = "readsig"
    /\ sigfile' = s
    /\ IF s.kind = "missing"
       THEN Propagate("FileNotFoundError") /\ UNCHANGED <<sig, handles>>
       ELSE /\ sig' = s.bytes
            /\ pc' = "dispatch"
            /\ handles' \in {handles, handles \cup {"sig"}}
            /\ UNCHANGED <<result, status>>
    /\ UNCHANGED <<fs_out, prog, artifact, keyfile, digest, key, call, signed>>

\* verifier.py 28-48
verify_call ==
    /\ prog = "verifier" /\ pc = "dispatch"
    /\ LET r == verify_dispatch(key, sig, digest)
       IN  /\ call' = r.call
           /\ result' = r.result
           /\ IF r.result.kind = "raise"
              THEN status' = 1 /\ pc' = "done"
              ELSE status' = -1 /\ pc' = "mainret"
    /\ UNCHANGED <<fs_out, prog, artifact, keyfile, sigfile, digest, key, sig, handles, signed>>

\* verifier.py 57-60
verifier_exit ==
    /\ prog = "verifier" /\ pc = "mainret"
    /\ status' = IF result.value = 0 THEN 0 ELSE 2
    /\ pc' = "done"
    /\ UNCHANGED <<fs_out, prog, artifact, keyfile, sigfile, digest, key, sig, call, result, handles, signed>>

\* the interpreter finalizes the unreferenced file object of verifier.py 27
Finalize ==
    /\ "sig" \in handles
    /\ handles' = handles \ {"sig"}
    /\ UNCHANGED <<fs_out, prog, pc, artifact, keyfile, sigfile, digest, key, sig, call, result, status, signed>>

Next ==
    \/ \E a \in ArtifactFiles : signer_main(a)
    \/ sign_digest
    \/ \E k \in KeyFiles : sign_load(k)
    \/ sign_call
    \/ sign_write
    \/ verifier_main
    \/ \E a \in ArtifactFiles : verify_digest(a)
    \/ \E p \in KeyFiles : verify_load(p)
    \/ \E s \in SigFiles \cup {fs_out} : verify_readsig(s)
    \/ verify_call
    \/ verifier_exit
    \/ Finalize

Spec == Init /\ [][Next]_vars

TypeOK ==
    /\ fs_out \in SigFiles
    /\ prog \in {"none", "signer", "verifier"}
    /\ pc \in {"done", "digest", "load", "dispatch", "write", "readsig", "mainret"}
    /\ artifact \in ArtifactFiles \cup {NotRead}
    /\ keyfile \in KeyFiles \cup {NotRead}
    /\ sigfile \in SigFiles \cup {NotRead}
    /\ key \in KeyObjects \cup {NoKey}
    /\ status \in {-1, 0, 1, 2}
    /\ handles \subseteq {"sig"}


\* ------------------------------------------------------------------ claims
PemFile(k) == [kind |-> "pem", key |-> k]

\* the public half of a key pair
public_key(k) == KeyObject("public", k.family, k.id)

\* one bit of a signature flipped
FlipBit(s, i) ==
    [s EXCEPT !.flipped = IF i \in s.flipped THEN s.flipped \ {i} ELSE s.flipped \cup {i}]

\* the scheme and parameters the signer uses for the family of key k
FamilyScheme(k) == sign_dispatch(KeyObject("private", k.family, k.id), digest).call.algo

\* the verifier has finished the dispatch for a key it loaded and a signature it read
Dispatched ==
    /\ prog = "verifier"
    /\ pc \in {"mainret", "done"}
    /\ key # NoKey
    /\ sig # NoSig

\* C1: signing artifact A with a private key of a supported family and then
\* verifying the same A, the signature file produced and the matching public
\* key returns 0 (Valid).
C1_RoundTrip ==
    (/\ prog = "verifier" /\ pc = "done"
     /\ signed # NotSigned
     /\ artifact.kind = "file" /\ artifact.bytes = signed.artifact
     /\ keyfile = PemFile(public_key(signed.key))
     /\ sigfile = fs_out)
    => result = Ret(0)

\* C2: the output signature file changes only in the write step of a signer
\* run, after the dispatch computed a signature; a run that fails in the
\* digest, the key load or the dispatch leaves the file as it was.
C2_NoOutputOnFailure ==
    [][fs_out' # fs_out =>
        /\ prog = "signer" /\ pc = "write"
        /\ call.fn = "sign"
        /\ sig = sign_dispatch(key, digest).sig /\ sig # NoSig
        /\ fs_out' = [kind |-> "file", bytes |-> sig]
        /\ result' = RetNone]_vars

C2_Witness ==
    /\ prog = "signer" /\ pc = "done"
    /\ result = Raise("SystemExit('Unsupported key type')")
    /\ fs_out.kind = "file"
    /\ fs_out.bytes = signed.sig

\* C3: for a supported public key and a signature that does not pass the
\* family's cryptographic check over the artifact's digest, verify_signature
\* returns 2: never 0, never an exception.
C3_InvalidRejected ==
    (/\ Dispatched
     /\ key.family \in Supported
     /\ ~Valid(key, sig, digest, FamilyScheme(key)))
    => result = Ret(2)

\* a valid ECDSA signature with one bit flipped was rejected with return 2
C3_Witness ==
    /\ Dispatched /\ pc = "done"
    /\ key.family = "EC"
    /\ \E i \in 1..SigBits : Valid(key, FlipBit(sig, i), digest, FamilyScheme(key))
    /\ result = Ret(2) /\ status = 2

\* C4: a signature the signer produced under a private key of family F1 is
\* never reported valid with a public key of another supported family F2.
C4_CrossFamily ==
    (/\ Dispatched
     /\ signed # NotSigned /\ sig = signed.sig
     /\ key.family \in Supported
     /\ key.family # signed.key.family)
    => (result # Ret(0) /\ status # 0)

C4_Witness ==
    /\ Dispatched /\ pc = "done"
    /\ signed # NotSigned /\ sig = signed.sig /\ sigfile = fs_out
    /\ signed.key.family = "RSA" /\ key.family = "Ed25519"
    /\ digest = sha256(signed.artifact)
    /\ result = Ret(2)

\* C5: the verifier's exit status is 0 exactly when the signature is valid,
\* and 2 in every other case, structural errors included.
C5_TwoValuedExit ==
    (prog = "verifier" /\ pc = "done")
    => /\ status \in {0, 2}
       /\ status = 0 <=> (/\ key # NoKey /\ sig # NoSig
                          /\ key.family \in Supported
                          /\ Valid(key, sig, digest, FamilyScheme(key)))

\* a structural error of a verifier run: a file that cannot be read, a key
\* file that is no public-key PEM, a key of an unsupported family
StructuralError ==
    \/ artifact.kind \in {"missing", "unreadable"}
    \/ keyfile.kind \in {"missing", "garbage"}
    \/ (keyfile.kind = "pem" /\ (keyfile.key.role # "public" \/ keyfile.key.family \notin Supported))
    \/ sigfile.kind = "missing"

\* C6: no structural error ends verify_signature with the result of an
\* invalid signature on well-formed input (return 2).
C6_ThreeWay ==
    (prog = "verifier" /\ pc = "done" /\ StructuralError) => result # Ret(2)

\* C7: with a loaded key of a family other than Ed25519, RSA, ECDSA the signer
\* and the verifier make no library sign/verify call and end with the
\* unsupported-key-type error.
C7_Unsupported ==
    (/\ pc = "done" /\ key # NoKey /\ key.family \in Unsupported
     /\ prog = "verifier" => sig # NoSig)
    => /\ call = NoCall
       /\ result = Raise("SystemExit('Unsupported key type')")

\* C8: a key file of the wrong role (a public key for the signer, a private
\* key for the verifier) fails at the key load: no key is loaded, the
\* dispatch is not reached, no signature is made and the run does not succeed.
WrongRole ==
    /\ keyfile.kind = "pem"
    /\ \/ prog = "signer" /\ keyfile.key.role = "public"
       \/ prog = "verifier" /\ keyfile.key.role = "private"

C8_RoleMismatch ==
    WrongRole =>
        /\ pc = "done"
        /\ result = Raise("ValueError")
        /\ key = NoKey /\ call = NoCall /\ sig = NoSig
        /\ status = 1

C8_Witness ==
    /\ WrongRole /\ prog = "signer" /\ pc = "done"
    /\ keyfile.key.family = "Ed25519"
    /\ result = Raise("ValueError")
    /\ fs_out.kind = "file"

\* C9: at the end of every invocation no file handle opened by it is open.
C9_HandlesReleased ==
    pc = "done" => handles = {}

\* C10: for a public key of a supported family the verifier's verify call
\* uses the scheme and parameters the signer uses for that family.
C10_DispatchAgree ==
    (Dispatched /\ key.family \in Supported /\ call.fn = "verify")
    => call.algo = FamilyScheme(key)


====
